---- MODULE Spec2Model ----
(***************************************************************************)
(* Model of the tantivy index wrapper of brt/pytantivy/src/wrappers.rs:    *)
(* TantivyIndexWrapper (new, field_names, num_docs, add_document,          *)
(* add_document_nocommit, search, field_vec_from_hashmap) and BatchIndexer *)
(* (new, add_document, commit), called from several threads that share one *)
(* wrapper.  Every thread may hold one BatchIndexer of its own.            *)
(*                                                                         *)
(* The index is the committed generation (a sequence of documents); an     *)
(* IndexWriter is a record with its pending buffer; a reader/searcher is a *)
(* copy of the committed generation taken when it is acquired.             *)
(***************************************************************************)
EXTENDS Integers, Sequences, FiniteSets, TLC

\* ---------------------------------------------------------------- bounds
\* The documents the index and its writers may hold together.
MaxDocs == 3

\* The committed documents of the largest index that is only searched.
MaxIndexed == 12

\* ------------------------------------------------------ program constants
\* TopDocs::with_limit(10)
TopLimit == 10

\* The caller threads that share the wrapper.
Threads == {1, 2}

\* ----------------------------------------------------------------- inputs
\* Records handed to add_document: a HashMap<&str, String>; a value is the
\* text of the field, as its sequence of terms.
RecSea == [title |-> <<"old", "sea">>, body |-> <<"fish">>]
RecMice == [title |-> <<"mice">>, body |-> <<"sea", "river">>]
RecNoTitle == [body |-> <<"mice">>, tag |-> <<"x">>]
Records == {RecSea, RecMice, RecNoTitle}

\* Query strings, as their sequence of tokens.
QuerySea == <<"sea">>
QueryMice == <<"mice", "whale">>
QueryBad == <<"title", ":">>
Queries == {QuerySea, QueryMice, QueryBad}

\* ------------------------------------------------------------------ state
VARIABLES
    schema,      \* TantivyIndexWrapper.schema: the field names, in order
    title_field_name, \* TantivyIndexWrapper.title_field_name
    committed,   \* TantivyIndexWrapper.index: the committed generation
    pc,          \* pc[t]: where thread t is inside the call it is running
    tw,          \* tw[t]: the index_writer local of add_document in thread t
    bw,          \* bw[t]: the index_writer of the BatchIndexer thread t holds
    arg,         \* arg[t]: the record or query of the running call
    snap,        \* snap[t]: the searcher thread t has acquired
    hits,        \* hits[t]: top_docs still to fetch in search
    ret          \* what the last step returned to its caller (NoRet: nothing)

vars == <<schema, title_field_name, committed, pc, tw, bw, arg, snap, hits, ret>>

\* ---------------------------------------------------------------- helpers
Range(s) == {s[i] : i \in 1..Len(s)}

\* An IndexWriter.  open: the writer exists and holds the index's writer
\* lock.  alive: its indexing workers run.  pending: the documents it has
\* accepted and not published.  The other fields record its history: acked,
\* the documents whose add call returned Ok to the wrapper's caller since the
\* writer's last successful commit; base, the committed generation when the
\* writer was opened or last committed; commits, 1 once it has committed.
NoWriter ==
    [open |-> FALSE, alive |-> FALSE, pending |-> <<>>, acked |-> <<>>,
     base |-> <<>>, commits |-> 0]

\* Index::writer(budget) when it succeeds: a writer with nothing pending.
FreshWriter(gen) ==
    [open |-> TRUE, alive |-> TRUE, pending |-> <<>>, acked |-> <<>>,
     base |-> gen, commits |-> 0]

\* The return of a call: the calling thread, the operation, Ok / Err / Panic
\* and the value returned (num_docs: count, search: titles).  For the drop of
\* a BatchIndexer, count is the number of pending documents dropped with it.
NoRet == [t |-> 0, op |-> "none", res |-> "none", count |-> 0, titles |-> <<>>]
Returned(t, op, res) ==
    [t |-> t, op |-> op, res |-> res, count |-> 0, titles |-> <<>>]

\* Mutant of New: only the display field enters the schema.
NewDisplayOnly(name_field, fields) == <<name_field>>

\* TantivyIndexWrapper::new: the schema built from name_field and fields.
New(name_field, fields) == <<name_field>> \o fields

\* TantivyIndexWrapper::field_names
field_names == schema

\* The writers that are open against the index.
OpenWriters ==
    {<<"transient", t>> : t \in {u \in Threads : tw[u].open}}
        \cup {<<"batch", t>> : t \in {u \in Threads : bw[u].open}}

\* Mutant of WriterLockFree: the lock is never looked at.
LockNotChecked == TRUE

\* Index::writer: the index gives its writer lock to one writer at a time.
WriterLockFree == OpenWriters = {}

\* Mutant of field_vec_from_hashmap: keys are not looked up in the schema.
FieldVecKeepsAll(doc) == doc

\* TantivyIndexWrapper::field_vec_from_hashmap and Document::from: the
\* (field, text) pairs of the record's keys that are schema fields.
field_vec_from_hashmap(doc) ==
    [f \in (DOMAIN doc) \cap Range(schema) |-> doc[f]]

\* IndexWriter::add_document: a live writer appends the document to its
\* pending buffer; a killed writer refuses it.
WriterAccepts(w) == w.alive

\* TantivyIndexWrapper::add_document_nocommit: hands the translated document
\* to the writer, drops the writer's answer and returns Ok.
add_document_nocommit(w, document_map) ==
    [w EXCEPT !.pending = IF WriterAccepts(w)
                            THEN Append(@, field_vec_from_hashmap(document_map))
                            ELSE @,
              !.acked = Append(@, field_vec_from_hashmap(document_map))]

\* Mutant of CanCommit: a killed writer commits too.
CommitsWhenKilled(w) == TRUE

\* IndexWriter::commit can succeed only on a live writer.
CanCommit(w) == w.alive

\* Mutant of Publish: the pending documents become visible one at a time.
PublishOneByOne(gen, w) ==
    IF w.pending = <<>> THEN gen ELSE Append(gen, Head(w.pending))

\* What a successful commit publishes: the new committed generation.
Publish(gen, w) == gen \o w.pending

\* The writer after a successful commit that made gen the committed
\* generation.
Committed(w, gen) ==
    [w EXCEPT !.pending = <<>>, !.acked = <<>>, !.base = gen,
              !.commits = 1]

\* The documents the index and its writers hold, and the adds in flight:
\* what MaxDocs bounds.
RECURSIVE SumAcked(_)
SumAcked(T) ==
    IF T = {} THEN 0
    ELSE LET t == CHOOSE u \in T : TRUE
         IN Len(bw[t].acked) + Len(tw[t].acked) + SumAcked(T \ {t})
HeldDocs ==
    Len(committed) + SumAcked(Threads)
        + Cardinality({t \in Threads : pc[t] = "ad_add"})

\* ------------------------------------------------------------------- Init
Init ==
    /\ schema = New("title", <<"body">>)
    /\ title_field_name = "title"
    /\ committed = <<>>
    /\ pc = [t \in Threads |-> "idle"]
    /\ tw = [t \in Threads |-> NoWriter]
    /\ bw = [t \in Threads |-> NoWriter]
    /\ arg = [t \in Threads |-> <<>>]
    /\ snap = [t \in Threads |-> <<>>]
    /\ hits = [t \in Threads |-> <<>>]
    /\ ret = NoRet

\* Mutant of AddDocOpen: a rejected add leaves its document with the writer
\* that holds the lock.
AddDocOpenLeavesDocument(t, r) ==
    /\ pc[t] = "idle"
    /\ WriterLockFree => HeldDocs < MaxDocs
    /\ IF WriterLockFree
         THEN /\ tw' = [tw EXCEPT ![t] = FreshWriter(committed)]
              /\ pc' = [pc EXCEPT ![t] = "ad_add"]
              /\ arg' = [arg EXCEPT ![t] = r]
              /\ ret' = NoRet
              /\ bw' = bw
         ELSE /\ ret' = Returned(t, "add_document", "Err")
              /\ bw' = [u \in Threads |->
                          IF bw[u].open /\ HeldDocs < MaxDocs
                            THEN [bw[u] EXCEPT !.pending =
                                     Append(@, field_vec_from_hashmap(r))]
                            ELSE bw[u]]
              /\ UNCHANGED <<tw, pc, arg>>
    /\ UNCHANGED <<schema, title_field_name, committed, snap, hits>>

\* -------------------------------------- TantivyIndexWrapper::add_document
\* line 44: open the transient writer, or return the open error.
AddDocOpen(t, r) ==
    /\ pc[t] = "idle"
    /\ WriterLockFree => HeldDocs < MaxDocs
    /\ IF WriterLockFree
         THEN /\ tw' = [tw EXCEPT ![t] = FreshWriter(committed)]
              /\ pc' = [pc EXCEPT ![t] = "ad_add"]
              /\ arg' = [arg EXCEPT ![t] = r]
              /\ ret' = NoRet
         ELSE /\ ret' = Returned(t, "add_document", "Err")
              /\ UNCHANGED <<tw, pc, arg>>
    /\ UNCHANGED <<schema, title_field_name, committed, bw, snap, hits>>

\* line 45: add_document_nocommit on the transient writer.
AddDocAdd(t) ==
    /\ pc[t] = "ad_add"
    /\ tw' = [tw EXCEPT ![t] = add_document_nocommit(@, arg[t])]
    /\ pc' = [pc EXCEPT ![t] = "ad_commit"]
    /\ ret' = NoRet
    /\ UNCHANGED <<schema, title_field_name, committed, bw, arg, snap, hits>>

\* line 46: index_writer.commit() succeeds and publishes.
AddDocCommitOk(t) ==
    /\ pc[t] = "ad_commit"
    /\ CanCommit(tw[t])
    /\ committed' = Publish(committed, tw[t])
    /\ tw' = [tw EXCEPT ![t] = Committed(@, committed')]
    /\ pc' = [pc EXCEPT ![t] = "ad_ret_ok"]
    /\ ret' = NoRet
    /\ UNCHANGED <<schema, title_field_name, bw, arg, snap, hits>>

\* Mutant of AddDocCommitErr: the commit error is swallowed.
AddDocCommitErrSwallowed(t) ==
    /\ pc[t] = "ad_commit"
    /\ pc' = [pc EXCEPT ![t] = "ad_ret_ok"]
    /\ ret' = NoRet
    /\ UNCHANGED <<schema, title_field_name, committed, tw, bw, arg, snap,
                   hits>>

\* line 46: index_writer.commit() fails; `?` leaves with the error.
AddDocCommitErr(t) ==
    /\ pc[t] = "ad_commit"
    /\ pc' = [pc EXCEPT ![t] = "ad_ret_err"]
    /\ ret' = NoRet
    /\ UNCHANGED <<schema, title_field_name, committed, tw, bw, arg, snap,
                   hits>>

\* Mutant of AddDocReturn: the error path keeps the writer.
AddDocReturnLeaks(t) ==
    /\ pc[t] \in {"ad_ret_ok", "ad_ret_err"}
    /\ tw' = [tw EXCEPT ![t] = IF pc[t] = "ad_ret_ok" THEN NoWriter ELSE @]
    /\ ret' = Returned(t, "add_document",
                    IF pc[t] = "ad_ret_ok" THEN "Ok" ELSE "Err")
    /\ pc' = [pc EXCEPT ![t] = "idle"]
    /\ arg' = [arg EXCEPT ![t] = <<>>]
    /\ UNCHANGED <<schema, title_field_name, committed, bw, snap, hits>>

\* lines 47-48: the call returns and index_writer goes out of scope.
AddDocReturn(t) ==
    /\ pc[t] \in {"ad_ret_ok", "ad_ret_err"}
    /\ tw' = [tw EXCEPT ![t] = NoWriter]
    /\ ret' = Returned(t, "add_document",
                    IF pc[t] = "ad_ret_ok" THEN "Ok" ELSE "Err")
    /\ pc' = [pc EXCEPT ![t] = "idle"]
    /\ arg' = [arg EXCEPT ![t] = <<>>]
    /\ UNCHANGED <<schema, title_field_name, committed, bw, snap, hits>>

\* ------------------------------------------------------------ BatchIndexer
\* BatchIndexer::new (lines 106-112): index.index.writer(..).unwrap().  When
\* the writer cannot be opened the unwrap panics: the thread unwinds and
\* drops the BatchIndexer it holds.
BatchNew(t) ==
    /\ pc[t] = "idle"
    /\ IF WriterLockFree
         THEN /\ bw' = [bw EXCEPT ![t] = FreshWriter(committed)]
              /\ ret' = Returned(t, "batch_new", "Ok")
              /\ pc' = pc
         ELSE /\ bw' = [bw EXCEPT ![t] = NoWriter]
              /\ ret' = Returned(t, "batch_new", "Panic")
              /\ pc' = [pc EXCEPT ![t] = "panicked"]
    /\ UNCHANGED <<schema, title_field_name, committed, tw, arg, snap, hits>>

\* Mutant of BatchAdd: every add commits at once, as add_document does.
BatchAddAutoCommit(t, r) ==
    /\ pc[t] = "idle"
    /\ bw[t].open
    /\ HeldDocs < MaxDocs
    /\ committed' = Append(committed, field_vec_from_hashmap(r))
    /\ ret' = Returned(t, "batch_add", "Ok")
    /\ UNCHANGED <<schema, title_field_name, bw, pc, tw, arg, snap, hits>>

\* BatchIndexer::add_document (lines 114-118)
BatchAdd(t, r) ==
    /\ pc[t] = "idle"
    /\ bw[t].open
    /\ HeldDocs < MaxDocs
    /\ bw' = [bw EXCEPT ![t] = add_document_nocommit(@, r)]
    /\ ret' = Returned(t, "batch_add", "Ok")
    /\ UNCHANGED <<schema, title_field_name, committed, pc, tw, arg, snap,
                   hits>>

\* BatchIndexer::commit, line 121: index_writer.commit() succeeds.
BatchCommitOk(t) ==
    /\ pc[t] = "idle"
    /\ bw[t].open
    /\ CanCommit(bw[t])
    /\ committed' = Publish(committed, bw[t])
    /\ bw' = [bw EXCEPT ![t] = Committed(@, committed')]
    /\ pc' = [pc EXCEPT ![t] = "bc_ret_ok"]
    /\ ret' = NoRet
    /\ UNCHANGED <<schema, title_field_name, tw, arg, snap, hits>>

\* BatchIndexer::commit, line 121: index_writer.commit() fails; `?` leaves
\* with the error.  Nothing rolls the writer back and self is only borrowed:
\* the BatchIndexer keeps its writer with what the writer holds.
BatchCommitErr(t) ==
    /\ pc[t] = "idle"
    /\ bw[t].open
    /\ pc' = [pc EXCEPT ![t] = "bc_ret_err"]
    /\ ret' = NoRet
    /\ UNCHANGED <<schema, title_field_name, committed, tw, bw, arg, snap,
                   hits>>

\* BatchIndexer::commit, lines 122-123: the call returns; self is borrowed,
\* not consumed, so the handle stays open.
BatchCommitReturn(t) ==
    /\ pc[t] \in {"bc_ret_ok", "bc_ret_err"}
    /\ ret' = Returned(t, "batch_commit",
                    IF pc[t] = "bc_ret_ok" THEN "Ok" ELSE "Err")
    /\ pc' = [pc EXCEPT ![t] = "idle"]
    /\ UNCHANGED <<schema, title_field_name, committed, tw, bw, arg, snap,
                   hits>>

\* Mutant of BatchDrop: the drop flushes the pending documents to the index.
BatchDropFlushes(t) ==
    /\ pc[t] = "idle"
    /\ bw[t].open
    /\ committed' = committed \o bw[t].pending
    /\ bw' = [bw EXCEPT ![t] = NoWriter]
    /\ ret' = [Returned(t, "batch_drop", "Ok") EXCEPT !.count = Len(bw[t].pending)]
    /\ UNCHANGED <<schema, title_field_name, pc, tw, arg, snap, hits>>

\* The BatchIndexer goes out of scope (struct at lines 100-103 owns the
\* IndexWriter): the writer is dropped with whatever it had pending.
BatchDrop(t) ==
    /\ pc[t] = "idle"
    /\ bw[t].open
    /\ bw' = [bw EXCEPT ![t] = NoWriter]
    /\ ret' = [Returned(t, "batch_drop", "Ok") EXCEPT !.count = Len(bw[t].pending)]
    /\ UNCHANGED <<schema, title_field_name, committed, pc, tw, arg, snap,
                   hits>>

\* The indexing workers of an open writer die (the failure that makes
\* IndexWriter::add_document and IndexWriter::commit return an error).
WriterKilled(t) ==
    /\ \/ /\ tw[t].open /\ tw[t].alive
          /\ tw' = [tw EXCEPT ![t].alive = FALSE]
          /\ bw' = bw
       \/ /\ bw[t].open /\ bw[t].alive
          /\ bw' = [bw EXCEPT ![t].alive = FALSE]
          /\ tw' = tw
    /\ ret' = NoRet
    /\ UNCHANGED <<schema, title_field_name, committed, pc, arg, snap, hits>>

\* ------------------------------------------ TantivyIndexWrapper::num_docs
\* line 38: self.index.reader()
NumDocsAcquire(t) ==
    /\ pc[t] = "idle"
    /\ snap' = [snap EXCEPT ![t] = committed]
    /\ pc' = [pc EXCEPT ![t] = "nd_count"]
    /\ ret' = NoRet
    /\ UNCHANGED <<schema, title_field_name, committed, tw, bw, arg, hits>>

\* line 39: Ok(reader.searcher().num_docs())
NumDocsReturn(t) ==
    /\ pc[t] = "nd_count"
    /\ ret' = [Returned(t, "num_docs", "Ok") EXCEPT !.count = Len(snap[t])]
    /\ snap' = [snap EXCEPT ![t] = <<>>]
    /\ pc' = [pc EXCEPT ![t] = "idle"]
    /\ UNCHANGED <<schema, title_field_name, committed, tw, bw, arg, hits>>

\* -------------------------------------------- TantivyIndexWrapper::search
\* Mutant of ParseOk: every query string parses.
ParseAnything(q) == TRUE

\* QueryParser::parse_query (line 70): a field qualifier with no term after
\* it does not parse.
ParseOk(q) == q # <<>> /\ q[Len(q)] # ":"

\* The terms of a parsed query; an unqualified term is looked up in every
\* field handed to QueryParser::for_index (lines 64-69: all schema fields).
QueryTerms(q) == Range(q)

\* The score of a document for a query: the occurrences of the query's terms
\* in the fields the query searches.
Score(doc, terms) ==
    LET F == (DOMAIN doc) \cap Range(schema)
        Occ == UNION {{<<f, i>> : i \in {j \in 1..Len(doc[f]) : doc[f][j] \in terms}}
                         : f \in F}
    IN Cardinality(Occ)

\* Before(gen, terms, a, b): hit a ranks before hit b (higher score first,
\* then document order).
Before(gen, terms, a, b) ==
    \/ Score(gen[a], terms) > Score(gen[b], terms)
    \/ Score(gen[a], terms) = Score(gen[b], terms) /\ a < b

\* Mutant of TopDocs: the collector has no limit.
TopDocsUnlimited(gen, terms) ==
    LET M == {a \in 1..Len(gen) : Score(gen[a], terms) > 0}
        Pos(a) == 1 + Cardinality({b \in M : Before(gen, terms, b, a)})
    IN [k \in 1..Cardinality(M) |-> CHOOSE a \in M : Pos(a) = k]

\* searcher.search(&query, &TopDocs::with_limit(10)) (line 71): the addresses
\* of the matching documents of the searcher's generation, best first, at
\* most TopLimit of them.
TopDocs(gen, terms) ==
    LET M == {a \in 1..Len(gen) : Score(gen[a], terms) > 0}
        Pos(a) == 1 + Cardinality({b \in M : Before(gen, terms, b, a)})
        K == IF Cardinality(M) < TopLimit THEN Cardinality(M) ELSE TopLimit
    IN [k \in 1..K |-> CHOOSE a \in M : Pos(a) = k]

\* Mutant of RankedGeneration: the ranking reads the live index.
RankedLive(t) == committed

\* The generation the ranking step of search reads: the searcher acquired
\* at line 62.
RankedGeneration(t) == snap[t]

\* lines 61-70: acquire reader and searcher, build the parser over all schema
\* fields, parse the query; a parse error leaves through `?`.
SearchBegin(t, q) ==
    /\ pc[t] = "idle"
    /\ IF ParseOk(q)
         THEN /\ snap' = [snap EXCEPT ![t] = committed]
              /\ arg' = [arg EXCEPT ![t] = q]
              /\ pc' = [pc EXCEPT ![t] = "s_rank"]
              /\ ret' = NoRet
         ELSE /\ ret' = Returned(t, "search", "Err")
              /\ UNCHANGED <<snap, arg, pc>>
    /\ UNCHANGED <<schema, title_field_name, committed, tw, bw, hits>>

\* line 71: rank on the searcher.
SearchRank(t) ==
    /\ pc[t] = "s_rank"
    /\ hits' = [hits EXCEPT ![t] = TopDocs(RankedGeneration(t), QueryTerms(arg[t]))]
    /\ pc' = [pc EXCEPT ![t] = "s_fetch"]
    /\ ret' = NoRet
    /\ UNCHANGED <<schema, title_field_name, committed, tw, bw, arg, snap>>

\* lines 73-82, the loop over top_docs and the return: fetch each hit's
\* stored document from the searcher and push its title;
\* get_first(title_field).unwrap() panics on a document with no title and
\* the thread unwinds, dropping what it holds.
SearchFetch(t) ==
    /\ pc[t] = "s_fetch"
    /\ IF \A i \in 1..Len(hits[t]) : title_field_name \in DOMAIN snap[t][hits[t][i]]
         THEN /\ ret' = [Returned(t, "search", "Ok") EXCEPT !.titles =
                    [i \in 1..Len(hits[t]) |-> snap[t][hits[t][i]][title_field_name]]]
              /\ pc' = [pc EXCEPT ![t] = "idle"]
              /\ bw' = bw
         ELSE /\ ret' = Returned(t, "search", "Panic")
              /\ pc' = [pc EXCEPT ![t] = "panicked"]
              /\ bw' = [bw EXCEPT ![t] = NoWriter]
    /\ hits' = [hits EXCEPT ![t] = <<>>]
    /\ snap' = [snap EXCEPT ![t] = <<>>]
    /\ arg' = [arg EXCEPT ![t] = <<>>]
    /\ UNCHANGED <<schema, title_field_name, committed, tw>>

Next ==
    \E t \in Threads :
        \/ \E r \in Records : AddDocOpen(t, r)
        \/ AddDocAdd(t)
        \/ AddDocCommitOk(t)
        \/ AddDocCommitErr(t)
        \/ AddDocReturn(t)
        \/ BatchNew(t)
        \/ \E r \in Records : BatchAdd(t, r)
        \/ BatchCommitOk(t)
        \/ BatchCommitErr(t)
        \/ BatchCommitReturn(t)
        \/ BatchDrop(t)
        \/ WriterKilled(t)
        \/ NumDocsAcquire(t)
        \/ NumDocsReturn(t)
        \/ \E q \in Queries : SearchBegin(t, q)
        \/ SearchRank(t)
        \/ SearchFetch(t)

Spec == Init /\ [][Next]_vars

\* ---------------------------------------------- TantivyIndexWrapper::new
\* The names new is called with: name_field and fields.
Names == {"title", "body"}
FieldLists == {<<>>, <<"body">>, <<"body", "tag">>, <<"title">>, <<"body", "body">>}

HasDuplicate(names) ==
    \E i \in 1..Len(names), j \in 1..Len(names) : i # j /\ names[i] = names[j]

\* schema_builder.add_text_field (lines 16-19): the schema builder of the
\* tantivy releases this code compiles against (Schema::get_field returns a
\* Result, lines 88-93) panics on a name it already has.
SchemaBuilderAccepts(names) == ~HasDuplicate(names)

\* TantivyIndexWrapper::new (lines 14-27), which returns Self: it builds the
\* schema and the index in RAM, or the schema builder panics and the calling
\* thread unwinds.  The return echoes, in titles, the names the call was
\* given.
Construct(t, name_field, fields) ==
    /\ pc[t] = "new"
    /\ IF SchemaBuilderAccepts(<<name_field>> \o fields)
         THEN /\ schema' = New(name_field, fields)
              /\ title_field_name' = name_field
              /\ pc' = [pc EXCEPT ![t] = "idle"]
              /\ ret' = [Returned(t, "new", "Ok") EXCEPT
                            !.titles = <<name_field>> \o fields]
         ELSE /\ pc' = [pc EXCEPT ![t] = "panicked"]
              /\ ret' = [Returned(t, "new", "Panic") EXCEPT
                            !.titles = <<name_field>> \o fields]
              /\ UNCHANGED <<schema, title_field_name>>
    /\ UNCHANGED <<committed, tw, bw, arg, snap, hits>>

\* No index has been constructed yet: the caller is about to call new.
InitSchema ==
    /\ schema = <<>>
    /\ title_field_name = ""
    /\ committed = <<>>
    /\ pc = [t \in Threads |-> IF t = 1 THEN "new" ELSE "idle"]
    /\ tw = [t \in Threads |-> NoWriter]
    /\ bw = [t \in Threads |-> NoWriter]
    /\ arg = [t \in Threads |-> <<>>]
    /\ snap = [t \in Threads |-> <<>>]
    /\ hits = [t \in Threads |-> <<>>]
    /\ ret = NoRet

\* One caller constructs an index over some schema and then uses it.
NextSchema ==
    \E t \in {1} :
        \/ \E name_field \in Names, fields \in FieldLists :
                Construct(t, name_field, fields)
        \/ \E r \in Records : AddDocOpen(t, r)
        \/ AddDocAdd(t)
        \/ AddDocCommitOk(t)
        \/ AddDocCommitErr(t)
        \/ AddDocReturn(t)
        \/ BatchNew(t)
        \/ \E r \in Records : BatchAdd(t, r)
        \/ BatchCommitOk(t)
        \/ BatchCommitErr(t)
        \/ BatchCommitReturn(t)
        \/ BatchDrop(t)
        \/ WriterKilled(t)
        \/ NumDocsAcquire(t)
        \/ NumDocsReturn(t)
        \/ \E q \in Queries : SearchBegin(t, q)
        \/ SearchRank(t)
        \/ SearchFetch(t)

SpecSchema == InitSchema /\ [][NextSchema]_vars
\* ------------------------------------------------- searching a large index
\* The index after n transient add_document calls, the first k of them with
\* RecSea and the others with RecMice.
BigIndex(n, k) ==
    [i \in 1..n |-> IF i <= k THEN field_vec_from_hashmap(RecSea)
                              ELSE field_vec_from_hashmap(RecMice)]

InitBig ==
    /\ schema = New("title", <<"body">>)
    /\ title_field_name = "title"
    /\ \E n \in 0..MaxIndexed : \E k \in 0..n : committed = BigIndex(n, k)
    /\ pc = [t \in Threads |-> "idle"]
    /\ tw = [t \in Threads |-> NoWriter]
    /\ bw = [t \in Threads |-> NoWriter]
    /\ arg = [t \in Threads |-> <<>>]
    /\ snap = [t \in Threads |-> <<>>]
    /\ hits = [t \in Threads |-> <<>>]
    /\ ret = NoRet

\* The readers of the index: num_docs and search.
NextBig ==
    \E t \in Threads :
        \/ NumDocsAcquire(t)
        \/ NumDocsReturn(t)
        \/ \E q \in Queries : SearchBegin(t, q)
        \/ SearchRank(t)
        \/ SearchFetch(t)

SpecBig == InitBig /\ [][NextBig]_vars

\* ================================================================= claims
IsPrefix(a, b) == Len(a) <= Len(b) /\ a = SubSeq(b, 1, Len(a))
Reading(t) == pc[t] \in {"nd_count", "s_rank", "s_fetch"}

\* C1: documents added through an open batch handle are visible to no
\* searcher before commitBatch succeeds: while a BatchIndexer is open the
\* committed generation is still the one of the moment the handle was opened
\* (or of its last successful commit), whatever was added to it, and every
\* searcher holds committed documents only.  On a fresh index, N batch adds
\* without commit leave documentCount at 0.
BatchAddsInvisible ==
    /\ \A t \in Threads : bw[t].open => committed = bw[t].base
    /\ \A t \in Threads : Reading(t) => IsPrefix(snap[t], committed)
    /\ ret.op = "num_docs" => ret.count <= Len(committed)

BatchAddsInvisibleWitness ==
    \E t \in Threads :
        /\ bw[t].open /\ bw[t].commits = 0
        /\ Len(bw[t].pending) >= 2
        /\ committed = <<>>
        /\ ret.op = "num_docs" /\ ret.count = 0

\* C2: a successful commit (BatchIndexer::commit, or the one inside
\* add_document) publishes exactly the documents added to its writer since
\* the writer's last successful commit, after the documents of all prior
\* commits, and a searcher acquired afterwards holds exactly the committed
\* generation.
CommitPublishesAdded ==
    [][\A t \in Threads :
        /\ (pc[t] = "idle" /\ pc'[t] = "bc_ret_ok")
              => /\ committed' = committed \o bw[t].acked
                 /\ Len(committed') = Len(committed) + Len(bw[t].acked)
        /\ (pc[t] = "ad_commit" /\ pc'[t] = "ad_ret_ok")
              => committed' = committed \o tw[t].acked
        /\ (pc[t] = "idle" /\ pc'[t] \in {"nd_count", "s_rank"})
              => snap'[t] = committed
        /\ (pc[t] = "nd_count" /\ pc'[t] = "idle")
              => ret'.count = Len(snap[t])]_vars

CommitPublishesAddedWitness ==
    \E t \in Threads :
        /\ pc[t] = "bc_ret_ok"
        /\ bw[t].base = committed
        /\ Len(committed) >= 2

\* C3: a transient add_document that returns Ok has raised documentCount by
\* exactly 1 over its value when the call began, the new last document being
\* the translation of its record, with no further commit.
TransientAddDurable ==
    [][\A t \in Threads :
        /\ (pc[t] = "ad_commit" /\ pc'[t] = "ad_ret_ok")
              => /\ committed = tw[t].base
                 /\ committed' = Append(tw[t].base, field_vec_from_hashmap(arg[t]))
                 /\ Len(committed') = Len(tw[t].base) + 1
        /\ (pc[t] = "ad_ret_ok" /\ pc'[t] = "idle")
              => /\ ret'.op = "add_document" /\ ret'.res = "Ok"
                 /\ committed' = committed
        /\ (ret'.op = "add_document" /\ ret'.res = "Ok" /\ ret'.t = t)
              => pc[t] = "ad_ret_ok"]_vars

TransientAddDurableWitness ==
    /\ ret.op = "add_document" /\ ret.res = "Ok"
    /\ Len(committed) >= 1

\* C4: at most one writer is open against the index in every reachable
\* state, counting the transient writers of add_document and the writers
\* held by BatchIndexers.
AtMostOneWriter == Cardinality(OpenWriters) <= 1

AtMostOneWriterWitness ==
    \E t \in Threads :
        /\ bw[t].open
        /\ ret.op = "add_document" /\ ret.res = "Err" /\ ret.t # t

\* C5: a writer-open failure is reported to the caller as an error value:
\* add_document and BatchIndexer::new called while a writer is open return an
\* error and never panic.
OpenFailureIsAnError ==
    ret.op \in {"add_document", "batch_new"} => ret.res \in {"Ok", "Err"}

\* C6: commits are atomic for readers: the committed generation only ever
\* changes by the whole pending buffer of a writer that is committing, and a
\* searcher is the whole committed generation of the moment it is acquired,
\* so it holds none or all of the k documents of a commit.
CommitAtomic ==
    [][/\ committed' # committed =>
            \E t \in Threads :
                \/ pc[t] = "ad_commit" /\ committed' = committed \o tw[t].pending
                \/ /\ pc[t] = "idle" /\ bw[t].open
                   /\ committed' = committed \o bw[t].pending
       /\ \A t \in Threads :
            snap'[t] # snap[t] => snap'[t] \in {<<>>, committed}]_vars

CommitAtomicWitness ==
    \E t \in Threads, u \in Threads :
        /\ t # u
        /\ pc[t] = "bc_ret_ok"
        /\ Reading(u)
        /\ Len(committed) >= Len(snap[u]) + 2

\* C7: a searcher is immutable for its lifetime: in a search the fetch step
\* works on the hits ranked on the searcher acquired at the start of the
\* call and fetches them from that same searcher, whatever was committed
\* since.
SnapshotImmutable ==
    \A t \in Threads :
        pc[t] = "s_fetch" =>
            /\ IsPrefix(snap[t], committed)
            /\ hits[t] = TopDocs(snap[t], QueryTerms(arg[t]))

SnapshotImmutableWitness ==
    \E t \in Threads :
        /\ pc[t] = "s_fetch"
        /\ hits[t] # <<>>
        /\ snap[t] # committed
        /\ TopDocs(committed, QueryTerms(arg[t])) # hits[t]

\* C8: a failed commit leaves the index at its last committed generation and
\* the documents that were pending in that writer are lost.
FailedCommitLosesPending ==
    \A t \in Threads :
        pc[t] = "bc_ret_err" =>
            /\ committed = bw[t].base
            /\ bw[t].pending = <<>>

\* C9: a batch handle is terminated by one commit: once commitBatch has
\* succeeded on it, the handle takes no further add and no further commit.
BatchCommitsOnce ==
    [][\A t \in Threads :
        (bw[t].open /\ bw[t].commits = 1 /\ pc[t] = "idle" /\ bw'[t].open)
            => /\ bw'[t].acked = bw[t].acked
               /\ pc'[t] \notin {"bc_ret_ok", "bc_ret_err"}]_vars

\* C10: discarding a writer without committing leaves nothing behind: the
\* drop of a BatchIndexer changes no committed document and frees the writer
\* lock, and a writer opened later starts with nothing pending, so a later
\* commit of another writer cannot publish the dropped documents.
DropLeavesNothing ==
    [][\A t \in Threads :
        /\ (bw[t].open /\ ~bw'[t].open)
              => committed' = committed /\ WriterLockFree'
        /\ (~bw[t].open /\ bw'[t].open)
              => bw'[t].pending = <<>> /\ bw'[t].base = committed
        /\ (~tw[t].open /\ tw'[t].open)
              => tw'[t].pending = <<>> /\ tw'[t].base = committed]_vars

DropLeavesNothingWitness ==
    /\ ret.op = "batch_drop"
    /\ ret.count >= 2
    /\ WriterLockFree
    /\ committed = <<>>
\* C11: a record key that is not a schema field is silently ignored: every
\* add through add_document or a BatchIndexer goes on to hand the writer a
\* document that holds exactly the (field, text) pairs of the record's
\* schema-known keys (possibly none), a batch add returns Ok, every committed
\* document holds schema fields only and counts in documentCount, and the
\* schema is what it was before the call.
IsTranslation(d, r) ==
    /\ DOMAIN d = {k \in DOMAIN r : \E i \in 1..Len(schema) : schema[i] = k}
    /\ \A k \in DOMAIN d : d[k] = r[k]

UnknownKeysIgnored ==
    [][\A t \in Threads :
        /\ (pc[t] = "ad_add" /\ pc'[t] # "ad_add") =>
              /\ pc'[t] = "ad_commit"
              /\ Len(tw'[t].acked) = 1
              /\ IsTranslation(tw'[t].acked[1], arg[t])
        /\ (bw[t].open /\ bw'[t].open /\ bw'[t].acked # bw[t].acked
                /\ bw'[t].acked # <<>>) =>
              /\ ret'.op = "batch_add" /\ ret'.res = "Ok"
              /\ Len(bw'[t].acked) = Len(bw[t].acked) + 1
              /\ \E r \in Records :
                    IsTranslation(bw'[t].acked[Len(bw'[t].acked)], r)
        /\ \A i \in 1..Len(committed') :
              DOMAIN committed'[i] \subseteq Range(schema')
        /\ schema # <<>> => schema' = schema]_vars

UnknownKeysIgnoredWitness ==
    /\ \E i \in 1..Len(committed) : DOMAIN committed[i] = {}
    /\ Len(committed) >= 2
    /\ ret.op = "num_docs" /\ ret.count = Len(committed)
    /\ "tag" \notin Range(field_names)
\* The committed documents of generation gen that hold a term of query q in
\* some schema field.
Matching(gen, q) ==
    {a \in 1..Len(gen) :
        \E f \in (DOMAIN gen[a]) \cap Range(schema) :
            \E i \in 1..Len(gen[a][f]) : gen[a][f][i] \in Range(q)}

\* C12: when a hit is a committed document without the display field, search
\* leaves that hit out and returns Ok with the display values of the other
\* hits, in their order.
MissingTitleHitOmitted ==
    [][\A t \in Threads :
        (pc[t] = "s_fetch" /\ pc'[t] # "s_fetch") =>
            /\ ret'.op = "search" /\ ret'.res = "Ok"
            /\ Len(ret'.titles) =
                  Cardinality({i \in 1..Len(hits[t]) :
                      title_field_name \in DOMAIN snap[t][hits[t][i]]})]_vars

\* C13: a malformed query string makes search return an error, never an
\* Ok result and never a panic, and the failed search changes nothing: the
\* committed documents, the open writers with their pending documents and
\* every running call are as they were.
MalformedQueryIsError ==
    [][\A t \in Threads :
        /\ (pc[t] = "idle" /\ pc'[t] = "s_rank") => arg'[t] # QueryBad
        /\ (ret'.op = "search" /\ ret'.t = t /\ ret'.res = "Err") =>
              /\ pc[t] = "idle"
              /\ UNCHANGED <<schema, title_field_name, committed, pc, tw, bw,
                             arg, snap, hits>>
        /\ (ret'.op = "search" /\ ret'.t = t /\ ret'.res # "Err") =>
              /\ pc[t] = "s_fetch"
              /\ arg[t] # QueryBad]_vars

MalformedQueryIsErrorWitness ==
    /\ ret.op = "search" /\ ret.res = "Err"
    /\ committed # <<>>
    /\ \E t \in Threads : bw[t].open /\ bw[t].pending # <<>>

\* C14: search queries every schema field: a well-formed query that at most
\* TopLimit committed documents match returns Ok with exactly the display
\* values of the documents holding a query term in any schema field (none:
\* an empty result).
SearchesEveryField ==
    [][\A t \in Threads :
        (pc[t] = "s_fetch" /\ pc'[t] # "s_fetch"
            /\ Cardinality(Matching(snap[t], arg[t])) <= TopLimit) =>
            /\ ret'.op = "search" /\ ret'.res = "Ok"
            /\ Len(ret'.titles) = Cardinality(Matching(snap[t], arg[t]))
            /\ \A a \in Matching(snap[t], arg[t]) :
                  \E k \in 1..Len(ret'.titles) :
                      ret'.titles[k] = snap[t][a][title_field_name]]_vars

\* C16: an add the writer did not accept is never answered with Ok: after a
\* batch add that returned Ok, every document the handle acknowledged is in
\* its writer's pending buffer.
AddFailureReturned ==
    (ret.op = "batch_add" /\ ret.res = "Ok") =>
        bw[ret.t].pending = bw[ret.t].acked
\* C15: a successful search returns at most TopLimit display strings,
\* however many committed documents match the query.
AtMostTopLimit ==
    /\ (ret.op = "search" /\ ret.res = "Ok") => Len(ret.titles) <= TopLimit
    /\ \A t \in Threads : pc[t] = "s_fetch" => Len(hits[t]) <= TopLimit

AtMostTopLimitWitness ==
    /\ ret.op = "search" /\ ret.res = "Ok"
    /\ Len(ret.titles) = TopLimit
    /\ Cardinality(Matching(committed, QuerySea)) > TopLimit
\* C17: duplicate field names are rejected at construction: new called with
\* a name that occurs twice among the display field and the other fields
\* returns a schema error.
DuplicateNamesRejected ==
    (ret.op = "new" /\ HasDuplicate(ret.titles)) => ret.res = "Err"

\* C18: field_names of an index built with display field D and other fields
\* F1..Fn is exactly {D, F1, .., Fn}, n + 1 names and none twice, and no
\* operation on the index changes it afterwards.
FieldNamesExact ==
    [][/\ (ret'.op = "new" /\ ret'.res = "Ok") =>
              /\ Range(field_names') = Range(ret'.titles)
              /\ Len(field_names') = Len(ret'.titles)
              /\ ~HasDuplicate(field_names')
       /\ field_names # <<>> => field_names' = field_names]_vars

FieldNamesExactWitness ==
    /\ Len(field_names) = 3
    /\ ~HasDuplicate(field_names)
    /\ committed # <<>>
    /\ ret.op = "search" /\ ret.res = "Ok" /\ ret.titles # <<>>

\* C19: the transient writer of add_document is released on every exit path:
\* once the call has returned, with Ok or with an error, its thread holds no
\* transient writer, so the writer lock is not held because of it.
TransientWriterReleased ==
    /\ \A t \in Threads :
          tw[t].open => pc[t] \in {"ad_add", "ad_commit", "ad_ret_ok",
                                   "ad_ret_err"}
    /\ ret.op = "add_document" =>
          /\ ~tw[ret.t].open
          /\ <<"transient", ret.t>> \notin OpenWriters

TransientWriterReleasedWitness ==
    /\ ret.op = "add_document" /\ ret.res = "Err"
    /\ WriterLockFree
    /\ committed # <<>>

\* C20: a transient add_document attempted while a BatchIndexer is open
\* returns an error and has no effect: the committed documents, the batch
\* writer with its pending documents and every other writer are untouched,
\* no transient writer is opened, and a later successful commit of the batch
\* publishes exactly the documents pending on the handle.
RejectedAddHasNoEffect ==
    [][\A t \in Threads :
        /\ (pc[t] = "idle" /\ ret'.op = "add_document" /\ ret'.t = t) =>
              /\ ~WriterLockFree
              /\ ret'.res = "Err"
              /\ UNCHANGED <<committed, bw, tw, pc>>
        /\ (pc[t] = "idle" /\ pc'[t] = "ad_add") =>
              \A u \in Threads : ~bw[u].open
        /\ (pc[t] = "idle" /\ pc'[t] = "bc_ret_ok") =>
              /\ committed' = committed \o bw[t].pending
              /\ bw[t].pending = bw[t].acked]_vars

RejectedAddHasNoEffectWitness ==
    /\ ret.op = "add_document" /\ ret.res = "Err"
    /\ \E u \in Threads :
          /\ bw[u].open
          /\ bw[u].pending # <<>>
          /\ bw[u].pending = bw[u].acked
          /\ committed = bw[u].base
    /\ committed # <<>>
====
